---- MODULE Spec2Model ----
(***************************************************************************)
(* A model of the VirtualScroller component of yew-virtual-scroller        *)
(* (src/src/lib.rs): the component's fields, its message handlers, its     *)
(* props-change handler and its view, together with the parent that owns   *)
(* the props, the framework's message queue and the scrollable element the *)
(* component reads its measurements from.                                  *)
(*                                                                         *)
(* Pixel quantities (row_height, viewport_height, scroll_top) are f64 in   *)
(* the source; the model draws them from the integers, and keeps the       *)
(* outcomes of the f64 division that the integers cannot express (NaN,     *)
(* +inf, -inf) and of the casts and usize arithmetic that follow it.       *)
(***************************************************************************)
EXTENDS Integers, Sequences, FiniteSets, TLC

VARIABLES
    parent_props,     \* the props the parent last passed to the component
    props,            \* self.props: [items, row_height, class]
    viewport_ref,     \* self.viewport_ref: TRUE when it holds the element
    viewport_height,  \* self.viewport_height
    content_window,   \* self.content_window: NoWindow or a ContentWindow
    link,             \* messages sent through self.link, in batches, FIFO
    render_pending,   \* a handler returned ShouldRender = true, view not yet run
    dom,              \* what the last run of view produced (NoDom before it)
    scroll_top,       \* the element's scrollTop
    client_height,    \* the element's height
    overflow_checks,  \* the build: TRUE panics on usize overflow, FALSE wraps
    panic             \* NoPanic, or the kind of panic that stopped the program

vars == <<parent_props, props, viewport_ref, viewport_height, content_window,
          link, render_pending, dom, scroll_top, client_height,
          overflow_checks, panic>>

----------------------------------------------------------------------------
(* Bounds of the model *)

MaxItems == 3

MaxRowHeight == 2

MaxHeight == 3

UsizeBits == 16

----------------------------------------------------------------------------
(* Values *)

Ascending(n) == [i \in 1..n |-> i]

Descending(n) == [i \in 1..n |-> n + 1 - i]

ItemLists == {Ascending(n) : n \in 0..MaxItems} \cup {Descending(MaxItems)}

\* a caller may pass any f64: the positive heights, 0 and a negative one
RowHeights == -1..MaxRowHeight

ClassNames == {"scroller", "other"}

Heights == 0..MaxHeight

Props == [items : ItemLists, row_height : RowHeights, class : ClassNames]

Msg == {[type |-> "CalculateViewport"], [type |-> "CalculateWindowContent"]}
       \cup {[type |-> "UpdateViewportHeight", height |-> h] : h \in Heights}

NoWindow == [none |-> TRUE]

ContentWindow(start_y, start, end) ==
    [start_y |-> start_y, visible_range |-> [start |-> start, end |-> end]]

NoDom == [none |-> TRUE]

NoPanic == "none"

WINDOW_STYLES == "will-change:transform;"

USIZE_MAX == 2 ^ UsizeBits - 1

ISIZE_MAX == 2 ^ (UsizeBits - 1) - 1

ISIZE_MIN == 0 - 2 ^ (UsizeBits - 1)

Max(a, b) == IF a >= b THEN a ELSE b

Min(a, b) == IF a <= b THEN a ELSE b

----------------------------------------------------------------------------
(* f64 arithmetic, as far as the window computation uses it *)

Fin(num, den) == [kind |-> "fin", num |-> num, den |-> den]

NaN == [kind |-> "nan", num |-> 0, den |-> 1]

PosInf == [kind |-> "inf", num |-> 1, den |-> 1]

NegInf == [kind |-> "inf", num |-> -1, den |-> 1]

\* a / b for integral a and b: a quotient, or IEEE's result of dividing by 0
F64Div(a, b) ==
    IF b = 0
    THEN (IF a = 0 THEN NaN ELSE IF a > 0 THEN PosInf ELSE NegInf)
    ELSE IF b > 0 THEN Fin(a, b) ELSE Fin(0 - a, 0 - b)

F64Floor(x) == IF x.kind = "fin" THEN Fin(x.num \div x.den, 1) ELSE x

F64Ceil(x) == IF x.kind = "fin" THEN Fin(0 - ((0 - x.num) \div x.den), 1) ELSE x

\* towards zero, as the casts truncate
F64Trunc(x) ==
    IF x.num >= 0 THEN x.num \div x.den ELSE 0 - ((0 - x.num) \div x.den)

\* `as isize`: NaN is 0, everything else saturates
AsIsize(x) ==
    IF x.kind = "nan" THEN 0
    ELSE IF x.kind = "inf" THEN (IF x.num > 0 THEN ISIZE_MAX ELSE ISIZE_MIN)
    ELSE Max(ISIZE_MIN, Min(ISIZE_MAX, F64Trunc(x)))

\* `as usize`: NaN is 0, everything else saturates
AsUsize(x) ==
    IF x.kind = "nan" THEN 0
    ELSE IF x.kind = "inf" THEN (IF x.num > 0 THEN USIZE_MAX ELSE 0)
    ELSE Max(0, Min(USIZE_MAX, F64Trunc(x)))

\* usize a - b and a + b: [overflow, value], the value wrapped
UsizeSub(a, b) == [overflow |-> a < b, value |-> (a - b) % (USIZE_MAX + 1)]

UsizeAdd(a, b) ==
    [overflow |-> a + b > USIZE_MAX, value |-> (a + b) % (USIZE_MAX + 1)]

----------------------------------------------------------------------------
(* The window computation of Msg::CalculateWindowContent *)

node_padding == 0

\* StartNode taking the remainder of the division instead of the quotient
StartNodeRemainder(scroll, row_height) ==
    IF row_height > 0 THEN scroll % row_height
    ELSE Max(0, AsIsize(F64Floor(F64Div(scroll, row_height))) - node_padding)

\* StartNode with the quotient rounded up instead of down
StartNodeCeil(scroll, row_height) ==
    Max(0, AsIsize(F64Ceil(F64Div(scroll, row_height))) - node_padding)

\* max(0, (scroll_top / row_height).floor() as isize - node_padding) as usize
StartNode(scroll, row_height) ==
    Max(0, AsIsize(F64Floor(F64Div(scroll, row_height))) - node_padding)

\* VisibleRows with the quotient rounded down instead of up
VisibleRowsFloor(height, row_height) ==
    AsUsize(F64Floor(F64Div(height, row_height))) + 2 * node_padding

\* (viewport_height / row_height).ceil() as usize + 2 * node_padding
VisibleRows(height, row_height) ==
    AsUsize(F64Ceil(F64Div(height, row_height))) + 2 * node_padding

\* WindowContent without the bound items.len() - start_node on total_visible
WindowContentNoClamp(scroll, height, row_height, len, checks) ==
    LET start_node == StartNode(scroll, row_height)
        total_visible == VisibleRows(height, row_height)
        start_y == start_node * row_height
        end_node == UsizeAdd(start_node, total_visible)
    IN  IF checks /\ end_node.overflow
        THEN [panic |-> "add_overflow", window |-> NoWindow]
        ELSE [panic |-> NoPanic,
              window |-> ContentWindow(start_y, start_node, end_node.value)]

\* The window the handler stores for these readings, or the panic it ends in.
\* checks: whether the build panics on usize overflow (otherwise it wraps).
WindowContent(scroll, height, row_height, len, checks) ==
    LET start_node == StartNode(scroll, row_height)
        remaining == UsizeSub(len, start_node)
        total_visible == Min(VisibleRows(height, row_height), remaining.value)
        start_y == start_node * row_height
        end_node == UsizeAdd(start_node, total_visible)
    IN  IF checks /\ remaining.overflow
        THEN [panic |-> "subtract_overflow", window |-> NoWindow]
        ELSE IF checks /\ end_node.overflow
        THEN [panic |-> "add_overflow", window |-> NoWindow]
        ELSE [panic |-> NoPanic,
              window |-> ContentWindow(start_y, start_node, end_node.value)]

----------------------------------------------------------------------------
(* VirtualScroller::update.  st holds the fields a handler may write:       *)
(* [viewport_height, content_window, panic].  Every handler returns true.  *)

Fields == [viewport_height |-> viewport_height,
           content_window |-> content_window,
           panic |-> panic]

\* self.viewport_ref.cast::<Element>().unwrap()
CastUnwrap(st) ==
    IF viewport_ref THEN st ELSE [st EXCEPT !.panic = "unwrap_none"]

CalculateViewport(st) ==
    LET viewport == CastUnwrap(st)
    IN  IF viewport.panic # NoPanic THEN viewport
        ELSE [st EXCEPT !.viewport_height = client_height]

UpdateViewportHeight(st, height) == [st EXCEPT !.viewport_height = height]

\* CalculateWindowContent storing no window when the range is empty
CalculateWindowContentClearsEmpty(st) ==
    LET viewport == CastUnwrap(st)
        res == WindowContent(scroll_top, st.viewport_height, props.row_height,
                             Len(props.items), overflow_checks)
    IN  IF viewport.panic # NoPanic THEN viewport
        ELSE IF res.panic # NoPanic THEN [st EXCEPT !.panic = res.panic]
        ELSE IF res.window.visible_range.start = res.window.visible_range.end
        THEN [st EXCEPT !.content_window = NoWindow]
        ELSE [st EXCEPT !.content_window = res.window]

CalculateWindowContent(st) ==
    LET viewport == CastUnwrap(st)
        res == WindowContent(scroll_top, st.viewport_height, props.row_height,
                             Len(props.items), overflow_checks)
    IN  IF viewport.panic # NoPanic THEN viewport
        ELSE IF res.panic # NoPanic THEN [st EXCEPT !.panic = res.panic]
        ELSE [st EXCEPT !.content_window = res.window]

update(st, msg) ==
    IF msg.type = "CalculateViewport" THEN CalculateViewport(st)
    ELSE IF msg.type = "UpdateViewportHeight"
    THEN UpdateViewportHeight(st, msg.height)
    ELSE CalculateWindowContent(st)

\* A batch is handled message by message in one update; a panic ends it.
RECURSIVE UpdateBatch(_, _)
UpdateBatch(st, batch) ==
    IF batch = <<>> \/ st.panic # NoPanic THEN st
    ELSE UpdateBatch(update(st, Head(batch)), Tail(batch))

----------------------------------------------------------------------------
(* VirtualScroller::change *)

\* change never asking for a render itself
changeNoRender(new_props) ==
    IF props # new_props
    THEN [props |-> new_props,
          send |-> << <<[type |-> "CalculateWindowContent"]>> >>,
          should_render |-> FALSE]
    ELSE [props |-> props, send |-> <<>>, should_render |-> FALSE]

\* change sending the recomputation without storing the new props
changeKeepsProps(new_props) ==
    IF props # new_props
    THEN [props |-> props,
          send |-> << <<[type |-> "CalculateWindowContent"]>> >>,
          should_render |-> props.class # new_props.class]
    ELSE [props |-> props, send |-> <<>>, should_render |-> FALSE]

\* What change(new_props) does: the props it leaves stored, the messages it
\* sends and the ShouldRender it returns.
change(new_props) ==
    IF props # new_props
    THEN [props |-> new_props,
          send |-> << <<[type |-> "CalculateWindowContent"]>> >>,
          should_render |-> props.class # new_props.class]
    ELSE [props |-> props, send |-> <<>>, should_render |-> FALSE]

----------------------------------------------------------------------------
(* VirtualScroller::view *)

\* &self.props.items[range]: the slice, or the panic of an index out of range
Slice(items, range) ==
    IF range.start > range.end \/ range.end > Len(items)
    THEN [panic |-> "slice_index", items |-> <<>>]
    ELSE [panic |-> NoPanic, items |-> SubSeq(items, range.start + 1, range.end)]

\* the spacer sized by the rows of the window instead of all the items
WindowContentHeight ==
    IF content_window = NoWindow THEN 0
    ELSE (content_window.visible_range.end - content_window.visible_range.start)
             * props.row_height

\* height of the spacer: (items.len() as f64) * row_height
TotalContentHeight == Len(props.items) * props.row_height

\* The rendered tree: the root's class, the spacer's height, the window's
\* style (translate_y is <<>> when there is no window) and the items in it.
view ==
    LET windowed ==
            IF content_window = NoWindow
            THEN [panic |-> NoPanic, translate_y |-> <<>>, items |-> <<>>]
            ELSE LET slice == Slice(props.items, content_window.visible_range)
                 IN  [panic |-> slice.panic,
                      translate_y |-> <<content_window.start_y>>,
                      items |-> slice.items]
    IN  [panic |-> windowed.panic,
         html |-> [class |-> props.class,
                   content_height |-> TotalContentHeight,
                   window_style |-> [base |-> WINDOW_STYLES,
                                     translate_y |-> windowed.translate_y],
                   items |-> windowed.items]]

\* rendered sending the computation before the measurement
renderedSwapped(first_render) ==
    IF first_render
    THEN << <<[type |-> "CalculateWindowContent"],
              [type |-> "CalculateViewport"]>> >>
    ELSE <<>>

\* rendered(first_render): the messages it sends
rendered(first_render) ==
    IF first_render
    THEN << <<[type |-> "CalculateViewport"],
              [type |-> "CalculateWindowContent"]>> >>
    ELSE <<>>

----------------------------------------------------------------------------
(* The element: its callbacks and its scroll range *)

\* a scroll listener that sends nothing
onscrollIgnored == <<>>

\* the callback of onscroll
onscroll == << <<[type |-> "CalculateWindowContent"]>> >>

\* onsize sending the computation before the new height
onsizeSwapped(height) ==
    << <<[type |-> "CalculateWindowContent"],
         [type |-> "UpdateViewportHeight", height |-> height]>> >>

\* the batch callback of onsize
onsize(height) ==
    << <<[type |-> "UpdateViewportHeight", height |-> height],
         [type |-> "CalculateWindowContent"]>> >>

\* the largest scrollTop of an overflow: auto element with this content
MaxScrollTop(content_height, height) == Max(0, content_height - height)

----------------------------------------------------------------------------
(* Initial state: VirtualScroller::create(props, link), before the first   *)
(* render                                                                  *)

Init ==
    /\ parent_props \in Props
    /\ props = parent_props
    /\ viewport_ref = FALSE
    /\ viewport_height = 0
    /\ content_window = NoWindow
    /\ link = <<>>
    /\ render_pending = TRUE
    /\ dom = NoDom
    /\ scroll_top = 0
    /\ client_height \in Heights
    /\ overflow_checks \in BOOLEAN
    /\ panic = NoPanic

----------------------------------------------------------------------------
(* Actions *)

\* The framework runs what is scheduled to completion before the browser
\* delivers the next event: nothing is queued and no render is due.
Idle == link = <<>> /\ ~render_pending /\ viewport_ref

\* The framework runs view, applies the tree (which binds viewport_ref and
\* lets the element clamp its scrollTop to the new spacer, with a scroll
\* event when that moves it) and calls rendered.
Render ==
    /\ panic = NoPanic
    /\ render_pending
    /\ render_pending' = FALSE
    /\ LET v == view
           clamped == Min(scroll_top,
                          MaxScrollTop(v.html.content_height, client_height))
       IN  IF v.panic # NoPanic
           THEN /\ panic' = v.panic
                /\ UNCHANGED <<dom, viewport_ref, scroll_top, link>>
           ELSE /\ panic' = panic
                /\ dom' = v.html
                /\ viewport_ref' = TRUE
                /\ scroll_top' = clamped
                /\ link' = link \o rendered(dom = NoDom)
                                \o (IF clamped # scroll_top THEN onscroll ELSE <<>>)
    /\ UNCHANGED <<parent_props, props, viewport_height, content_window,
                   client_height, overflow_checks>>

\* HandleMessages whose handlers ask for a render only when a field changed
HandleMessagesRenderIfChanged ==
    /\ panic = NoPanic
    /\ link # <<>>
    /\ LET st == UpdateBatch(Fields, Head(link))
       IN  /\ viewport_height' = st.viewport_height
           /\ content_window' = st.content_window
           /\ panic' = st.panic
           /\ render_pending' = (render_pending \/
                                   (st.panic = NoPanic /\ st # Fields))
    /\ link' = Tail(link)
    /\ UNCHANGED <<parent_props, props, viewport_ref, dom, scroll_top,
                   client_height, overflow_checks>>

\* HandleMessages with a handler that cuts the item list down to the window
HandleMessagesCutsItems ==
    /\ panic = NoPanic
    /\ link # <<>>
    /\ LET st == UpdateBatch(Fields, Head(link))
           cut == IF st.content_window = NoWindow
                  THEN [panic |-> NoPanic, items |-> props.items]
                  ELSE Slice(props.items, st.content_window.visible_range)
       IN  /\ viewport_height' = st.viewport_height
           /\ content_window' = st.content_window
           /\ panic' = st.panic
           /\ render_pending' = (render_pending \/ st.panic = NoPanic)
           /\ props' = [props EXCEPT !.items = cut.items]
    /\ link' = Tail(link)
    /\ UNCHANGED <<parent_props, viewport_ref, dom, scroll_top,
                   client_height, overflow_checks>>

\* The framework hands the oldest batch of messages to update.
HandleMessages ==
    /\ panic = NoPanic
    /\ link # <<>>
    /\ LET st == UpdateBatch(Fields, Head(link))
       IN  /\ viewport_height' = st.viewport_height
           /\ content_window' = st.content_window
           /\ panic' = st.panic
           /\ render_pending' = (render_pending \/ st.panic = NoPanic)
    /\ link' = Tail(link)
    /\ UNCHANGED <<parent_props, props, viewport_ref, dom, scroll_top,
                   client_height, overflow_checks>>

\* The parent re-renders and passes new_props to the mounted component.
PropsChanged(new_props) ==
    /\ panic = NoPanic
    /\ Idle
    /\ parent_props' = new_props
    /\ LET r == change(new_props)
       IN  /\ props' = r.props
           /\ link' = link \o r.send
           /\ render_pending' = (render_pending \/ r.should_render)
    /\ UNCHANGED <<viewport_ref, viewport_height, content_window, dom,
                   scroll_top, client_height, overflow_checks, panic>>

\* The user scrolls the element to offset y.
Scroll(y) ==
    /\ panic = NoPanic
    /\ Idle
    /\ y # scroll_top
    /\ y <= MaxScrollTop(dom.content_height, client_height)
    /\ scroll_top' = y
    /\ link' = link \o onscroll
    /\ UNCHANGED <<parent_props, props, viewport_ref, viewport_height,
                   content_window, render_pending, dom, client_height,
                   overflow_checks, panic>>

\* The element's height becomes h and the size observer reports it.
Resize(h) ==
    /\ panic = NoPanic
    /\ Idle
    /\ h # client_height
    /\ client_height' = h
    /\ LET clamped == Min(scroll_top, MaxScrollTop(dom.content_height, h))
       IN  /\ scroll_top' = clamped
           /\ link' = link \o onsize(h)
                           \o (IF clamped # scroll_top THEN onscroll ELSE <<>>)
    /\ UNCHANGED <<parent_props, props, viewport_ref, viewport_height,
                   content_window, render_pending, dom, overflow_checks, panic>>

\* update called on a component that holds no element yet.
UpdateUnmounted(msg) ==
    /\ panic = NoPanic
    /\ ~viewport_ref
    /\ LET st == update(Fields, msg)
       IN  /\ viewport_height' = st.viewport_height
           /\ content_window' = st.content_window
           /\ panic' = st.panic
           /\ render_pending' = (render_pending \/ st.panic = NoPanic)
    /\ UNCHANGED <<parent_props, props, viewport_ref, link, dom, scroll_top,
                   client_height, overflow_checks>>

MaxScroll == MaxItems * MaxRowHeight

Next ==
    \/ Render
    \/ HandleMessages
    \/ \E new_props \in Props : PropsChanged(new_props)
    \/ \E y \in 0..MaxScroll : Scroll(y)
    \/ \E h \in Heights : Resize(h)

Spec == Init /\ [][Next]_vars

NextApi ==
    \/ Next
    \/ \E msg \in Msg : UpdateUnmounted(msg)

SpecApi == Init /\ [][NextApi]_vars

TypeOK ==
    /\ props \in Props
    /\ parent_props \in Props
    /\ viewport_ref \in BOOLEAN
    /\ viewport_height \in Heights
    /\ render_pending \in BOOLEAN
    /\ scroll_top \in 0..MaxScroll
    /\ client_height \in Heights
    /\ Len(link) <= 2

----------------------------------------------------------------------------
(* Steps and readings the properties speak of *)

\* a step in which update handled the oldest batch; every batch ends with
\* CalculateWindowContent, which reads viewport_height as the batch left it
Handling == panic = NoPanic /\ link # <<>> /\ link' = Tail(link)

\* a step in which view ran and the tree was applied
Rendering == render_pending /\ ~render_pending' /\ panic' = NoPanic

\* a step in which the parent passed props that differ from the stored ones
PropsUpdate == parent_props' # parent_props

ItemCount == Len(props.items)

\* the inputs of the computation are valid: rowHeight > 0, viewportHeight >= 0,
\* 0 <= scrollOffset <= total scrollable height
ValidInputs ==
    /\ props.row_height > 0
    /\ viewport_height' >= 0
    /\ 0 <= scroll_top
    /\ scroll_top <= ItemCount * props.row_height

Range == content_window.visible_range

\* no message or render is outstanding and a window is stored
Windowed == panic = NoPanic /\ Idle /\ content_window # NoWindow

\* the computation of the specification, in unbounded integers
CeilDiv(a, b) == 0 - ((0 - a) \div b)

RefWindow(scroll, height, row_height, len) ==
    LET startIndex == Max(0, scroll \div row_height)
        visibleCount == Min(CeilDiv(height, row_height), len - startIndex)
    IN  ContentWindow(startIndex * row_height, startIndex,
                      startIndex + visibleCount)

----------------------------------------------------------------------------
\* C1: every window computed by CalculateWindowContent from valid inputs
\* (rowHeight > 0, viewportHeight >= 0, itemCount >= 0, scrollOffset between 0
\* and the total height) is stored and has
\* 0 <= startIndex <= endIndex <= itemCount.
C1_WindowInRange ==
    [][Handling /\ ValidInputs =>
         /\ panic' = NoPanic
         /\ content_window' # NoWindow
         /\ 0 <= content_window'.visible_range.start
         /\ content_window'.visible_range.start
               <= content_window'.visible_range.end
         /\ content_window'.visible_range.end <= ItemCount]_vars

\* a window inside the list, computed from a scroll offset inside the content
C1_Witness ==
    /\ Windowed
    /\ props.row_height > 0
    /\ scroll_top > 0
    /\ scroll_top <= ItemCount * props.row_height
    /\ 0 < Range.start /\ Range.start < Range.end /\ Range.end <= ItemCount

\* C2 (as claimed): when the list has been replaced by a shorter one while
\* the element is scrolled deep (the offset maps to a row at or beyond the new
\* item count, or the stored endIndex exceeds it), the recomputation completes
\* and stores a window with endIndex <= itemCount and visibleCount >= 0.
C2_ShrinkClamps ==
    [][(/\ Handling
        /\ props.row_height > 0
        /\ content_window # NoWindow
        /\ \/ scroll_top \div props.row_height >= ItemCount
           \/ Range.end > ItemCount)
       => /\ panic' = NoPanic
          /\ content_window'.visible_range.end <= ItemCount
          /\ content_window'.visible_range.end
                >= content_window'.visible_range.start]_vars

\* C3: whenever view runs, also while no window exists yet, the spacer height
\* it produces is itemCount * rowHeight of the current props.
C3_SpacerHeight ==
    [][Rendering =>
         dom'.content_height = Len(props.items) * props.row_height]_vars

\* rendered in the Unmeasured state: a spacer of full height, nothing in it
C3_Witness ==
    /\ dom # NoDom
    /\ content_window = NoWindow
    /\ dom.items = <<>>
    /\ dom.window_style.translate_y = <<>>
    /\ dom.content_height = Len(props.items) * props.row_height
    /\ dom.content_height > 0

\* C4 (as claimed): with itemCount = 0 the computation yields startIndex = 0,
\* endIndex = 0 and startY = 0 whatever the scroll offset and viewport height.
C4_EmptyList ==
    [][Handling /\ props.row_height > 0 /\ ItemCount = 0 =>
         /\ panic' = NoPanic
         /\ content_window' = ContentWindow(0, 0, 0)]_vars

\* C5 (as claimed): with a stored viewport height of 0 a window computation
\* yields a window with visibleCount = 0 (endIndex = startIndex).
C5_ZeroViewport ==
    [][Handling /\ props.row_height > 0 /\ viewport_height' = 0 =>
         /\ panic' = NoPanic
         /\ content_window' # NoWindow
         /\ content_window'.visible_range.end
               = content_window'.visible_range.start]_vars

\* C6: for valid inputs (and padding 0) the stored window is the one of the
\* specification: startIndex = max(0, floor(scrollOffset / rowHeight)),
\* visibleCount = min(ceil(viewportHeight / rowHeight), itemCount - startIndex),
\* endIndex = startIndex + visibleCount, startY = startIndex * rowHeight; and
\* the scenarios itemCount = 20000, rowHeight = 32, viewportHeight = 600,
\* scrollOffset = 3200 and itemCount = 5, scrollOffset = 0 give 100..119 at
\* 3200 and endIndex 5.
C6_MatchesReference ==
    [][/\ Handling /\ ValidInputs =>
            /\ panic' = NoPanic
            /\ content_window' = RefWindow(scroll_top, viewport_height',
                                           props.row_height, ItemCount)
       /\ WindowContent(3200, 600, 32, 20000, overflow_checks)
            = [panic |-> NoPanic, window |-> ContentWindow(3200, 100, 119)]
       /\ WindowContent(0, 600, 32, 5, overflow_checks)
            = [panic |-> NoPanic, window |-> ContentWindow(0, 0, 5)]]_vars

\* a window cut by the viewport, not by the end of the list
C6_Witness ==
    /\ Windowed
    /\ props.row_height > 1
    /\ viewport_height > 0
    /\ scroll_top % props.row_height # 0
    /\ Range.start = scroll_top \div props.row_height
    /\ Range.start > 0
    /\ Range.end < ItemCount

\* C7: for rowHeight > 0, a window computed at scrollOffset 0 starts at index
\* 0, and one computed at the maximum offset (totalHeight - viewportHeight,
\* the content being taller than the viewport) ends at itemCount.
C7_Boundaries ==
    [][Handling /\ props.row_height > 0 /\ viewport_height' >= 0 =>
         /\ scroll_top = 0 =>
               /\ panic' = NoPanic
               /\ content_window'.visible_range.start = 0
         /\ (/\ ItemCount * props.row_height > viewport_height'
             /\ scroll_top = ItemCount * props.row_height - viewport_height') =>
               /\ panic' = NoPanic
               /\ content_window'.visible_range.end = ItemCount]_vars

\* scrolled to the bottom of content taller than the viewport
C7_Witness ==
    /\ Windowed
    /\ props.row_height > 0
    /\ viewport_height > 0
    /\ viewport_height % props.row_height # 0
    /\ scroll_top > 0
    /\ scroll_top = ItemCount * props.row_height - viewport_height
    /\ Range.end = ItemCount

\* the props passed differ from the stored ones in the class alone
OnlyClassDiffers ==
    /\ PropsUpdate
    /\ parent_props'.items = props.items
    /\ parent_props'.row_height = props.row_height
    /\ parent_props'.class # props.class

\* C8 (as claimed): a props update that changes the class alone issues no
\* CalculateWindowContent, leaves the window as it is and requests a render.
C8_CosmeticSkipsRecompute ==
    [][OnlyClassDiffers =>
         /\ link' = link
         /\ content_window' = content_window
         /\ render_pending']_vars

\* C8 (amended): a props update that changes the class alone stores the new
\* props, leaves the stored window as it is and requests a render, which shows
\* the new class; it does issue a CalculateWindowContent.
C8_CosmeticStillRecomputes ==
    [][/\ OnlyClassDiffers =>
            /\ props' = parent_props'
            /\ content_window' = content_window
            /\ render_pending'
            /\ link' = Append(link, <<[type |-> "CalculateWindowContent"]>>)
       /\ Rendering => dom'.class = props.class]_vars

\* right after a class-only update: render due, recomputation queued, the
\* tree still showing the old class over the same items
C8_Witness ==
    /\ panic = NoPanic
    /\ render_pending
    /\ link = << <<[type |-> "CalculateWindowContent"]>> >>
    /\ dom # NoDom
    /\ dom.class # props.class
    /\ dom.content_height = Len(props.items) * props.row_height
    /\ content_window # NoWindow
    /\ Range.end > Range.start
    /\ dom.items = Slice(props.items, Range).items

\* C9: a props update that changes the item list or the row height stores the
\* new props and issues a window recomputation, and every window stored from
\* valid inputs is computed from the item count and row height the parent
\* passed last.
C9_PropsChangeRecomputes ==
    [][/\ (/\ PropsUpdate
           /\ \/ parent_props'.items # props.items
              \/ parent_props'.row_height # props.row_height) =>
            /\ props' = parent_props'
            /\ link' = Append(link, <<[type |-> "CalculateWindowContent"]>>)
       /\ (/\ Handling
           /\ parent_props.row_height > 0
           /\ scroll_top <= Len(parent_props.items) * parent_props.row_height) =>
            /\ panic' = NoPanic
            /\ content_window' = RefWindow(scroll_top, viewport_height',
                                           parent_props.row_height,
                                           Len(parent_props.items))]_vars

\* new items or row height stored, recomputation queued, nothing rendered yet
C9_Witness ==
    /\ panic = NoPanic
    /\ ~render_pending
    /\ link = << <<[type |-> "CalculateWindowContent"]>> >>
    /\ props = parent_props
    /\ dom # NoDom
    /\ dom.class = props.class
    /\ dom.content_height # Len(props.items) * props.row_height
    /\ props.row_height > 0

\* C10 (as claimed): a CalculateViewport or CalculateWindowContent handled
\* while the component holds no element does not fail and produces no window.
C10_DeferredWithoutElement ==
    ~viewport_ref => panic = NoPanic /\ content_window = NoWindow

\* C11 (as claimed): a window computation with rowHeight <= 0 never stores a
\* window derived from a division artifact: whatever it stores has
\* 0 <= startIndex <= endIndex <= itemCount.
C11_NonPositiveRowHeightGuarded ==
    [][Handling /\ props.row_height <= 0 /\ panic' = NoPanic =>
         /\ content_window' # NoWindow =>
              /\ content_window'.visible_range.start
                    <= content_window'.visible_range.end
              /\ content_window'.visible_range.end <= ItemCount]_vars

\* the window the handler computes at offset scroll from the other readings
\* of this state
WindowAt(scroll) ==
    WindowContent(scroll, viewport_height, props.row_height, ItemCount,
                  overflow_checks)

\* C12: with viewport height, row height and item count held fixed, a larger
\* scroll offset never gives a smaller startIndex: in every reachable state,
\* a window computed at an offset below the current one starts no later than
\* the window computed at the current offset, and one computed at an offset
\* above it starts no earlier.
C12_StartIndexMonotone ==
    LET here == WindowAt(scroll_top)
    IN  here.panic = NoPanic =>
          \A s \in 0..MaxScroll :
              LET there == WindowAt(s)
              IN  there.panic = NoPanic =>
                    /\ s <= scroll_top =>
                         there.window.visible_range.start
                            <= here.window.visible_range.start
                    /\ s >= scroll_top =>
                         here.window.visible_range.start
                            <= there.window.visible_range.start

\* a stored window that starts strictly later than the one a smaller offset
\* gives, and strictly earlier than the one a larger offset gives
C12_Witness ==
    /\ Windowed
    /\ props.row_height > 1
    /\ scroll_top > 0 /\ scroll_top < MaxScroll
    /\ content_window = WindowAt(scroll_top).window
    /\ WindowAt(0).window.visible_range.start < Range.start
    /\ \E s \in scroll_top + 1..ItemCount * props.row_height :
         Range.start < WindowAt(s).window.visible_range.start

\* C13: no message handler and no render changes the props: the item list
\* and the rest of the props change only in a props update, which stores
\* exactly the props the parent passed, so the stored props are always the
\* parent's.
C13_ItemsNeverMutated ==
    [][/\ props' # props => PropsUpdate /\ props' = parent_props'
       /\ props' = parent_props'
       /\ Handling \/ Rendering => props' = props]_vars

\* a slice of the list is on screen and the list is still the parent's
C13_Witness ==
    /\ Windowed
    /\ dom.items # <<>>
    /\ Len(dom.items) < Len(props.items)
    /\ props = parent_props
    /\ props.items \in ItemLists

\* C14 (as claimed): whenever a render is due while a window is stored, the
\* stored range lies within the current list (start <= end <= items.len()),
\* so view's slice is in range.  Stated for positive row heights and for the
\* renders that find no recomputation queued any more, which the claim
\* covers whatever order the framework runs a render and a queued message in.
C14_RangeWithinItems ==
    (/\ panic = NoPanic
     /\ render_pending
     /\ link = <<>>
     /\ content_window # NoWindow
     /\ props.row_height > 0
     /\ dom # NoDom
     /\ dom.content_height > 0) =>
        /\ Range.start <= Range.end
        /\ Range.end <= ItemCount

\* the window the handler computes from the readings of this state
CurrentWindow ==
    WindowContent(scroll_top, viewport_height, props.row_height, ItemCount,
                  overflow_checks)

\* the tree on screen is the view of the current props and window
Shown ==
    /\ dom # NoDom
    /\ dom.class = props.class
    /\ dom.content_height = Len(props.items) * props.row_height
    /\ content_window # NoWindow
    /\ Slice(props.items, Range).panic = NoPanic
    /\ dom.items = Slice(props.items, Range).items
    /\ dom.window_style.translate_y = <<content_window.start_y>>

\* C15: in the Windowed state with no message pending (and no render due),
\* the stored window is the window computation applied to the current scroll
\* offset, the stored viewport height, the current row height and item count.
C15_WindowConsistentWhenIdle ==
    Windowed =>
        /\ CurrentWindow.panic = NoPanic
        /\ content_window = CurrentWindow.window

\* idle after a scroll and a resize: the window follows both readings
C15_Witness ==
    /\ Windowed
    /\ scroll_top > 0
    /\ viewport_height = client_height
    /\ viewport_height < MaxHeight
    /\ Range.start > 0
    /\ Range.end > Range.start
    /\ Shown

\* the batch being handled carries a message of this type
HeadHas(type) == \E i \in 1..Len(Head(link)) : Head(link)[i].type = type

\* C16: the first render sends CalculateViewport before
\* CalculateWindowContent, so the first window stored is computed with the
\* measured height of the element and not with the initial 0; a later render
\* sends no message (the queue grows at most by the scroll event of an
\* element whose scrollTop the new spacer clamped).
C16_MeasureBeforeFirstWindow ==
    [][/\ Rendering /\ dom = NoDom =>
            link' = Append(link, <<[type |-> "CalculateViewport"],
                                   [type |-> "CalculateWindowContent"]>>)
       /\ Rendering /\ dom # NoDom =>
            link' = IF scroll_top' # scroll_top
                    THEN Append(link, <<[type |-> "CalculateWindowContent"]>>)
                    ELSE link
       /\ Handling /\ content_window = NoWindow =>
            /\ panic' = NoPanic
            /\ viewport_height' = client_height
            /\ content_window' =
                 WindowContent(scroll_top, client_height, props.row_height,
                               ItemCount, overflow_checks).window]_vars

\* the first window, computed with a measured height that is not 0, while the
\* tree on screen is still the one of the first render
C16_Witness ==
    /\ panic = NoPanic
    /\ render_pending
    /\ link = <<>>
    /\ dom # NoDom
    /\ dom.window_style.translate_y = <<>>
    /\ content_window # NoWindow
    /\ viewport_height = client_height
    /\ viewport_height > 0
    /\ Range.end > Range.start

\* a step that handles a lone CalculateWindowContent while no render is due,
\* as a scroll event (or a props update that keeps the class) sends it
LoneRecompute ==
    /\ Handling
    /\ Head(link) = <<[type |-> "CalculateWindowContent"]>>
    /\ ~render_pending

\* such a step when the tree on screen shows the whole current list at the
\* current class and height: the props are those of the last render, so the
\* message is the one of a scroll event
ScrollHandling ==
    /\ LoneRecompute
    /\ Shown
    /\ ItemCount > 0
    /\ dom.items = props.items

\* C17 (as claimed): a scroll event whose recomputed window equals the stored
\* one does not request a re-render.
C17_NoRenderIfRangeUnchanged ==
    [][ScrollHandling /\ content_window' = content_window =>
         ~render_pending']_vars

\* C17 (amended): a scroll event reads the current scroll offset and
\* recomputes the window, and a re-render is requested every time, also when
\* the recomputed range equals the stored one.
C17_ScrollAlwaysRenders ==
    [][LoneRecompute /\ panic' = NoPanic =>
         /\ content_window' = CurrentWindow.window
         /\ render_pending']_vars

\* a scroll within the first row has been handled: a render is due although
\* the tree on screen already shows the stored window, the whole list
C17_Witness ==
    /\ panic = NoPanic
    /\ render_pending
    /\ link = <<>>
    /\ Shown
    /\ ItemCount > 0
    /\ dom.items = props.items
    /\ scroll_top > 0
    /\ Range.start = 0

\* the height an UpdateViewportHeight of the batch being handled reports
ReportedHeights ==
    {Head(link)[i].height :
        i \in {j \in 1..Len(Head(link)) :
                  Head(link)[j].type = "UpdateViewportHeight"}}

\* C18: a resize event reporting height h stores h as the viewport height
\* and then recomputes, so the window stored in response is the one computed
\* with h.
C18_ResizeStoresThenRecomputes ==
    [][Handling /\ HeadHas("UpdateViewportHeight") /\ panic' = NoPanic =>
         \A h \in ReportedHeights :
             /\ viewport_height' = h
             /\ content_window' =
                  WindowContent(scroll_top, h, props.row_height, ItemCount,
                                overflow_checks).window]_vars

\* a resize has been handled: the window has the rows of the new height,
\* the tree on screen those of the old one
C18_Witness ==
    /\ panic = NoPanic
    /\ render_pending
    /\ link = <<>>
    /\ dom # NoDom
    /\ dom.window_style.translate_y # <<>>
    /\ dom.class = props.class
    /\ dom.content_height = Len(props.items) * props.row_height
    /\ content_window # NoWindow
    /\ viewport_height = client_height
    /\ viewport_height > 0
    /\ props.row_height > 0
    /\ Range.end - Range.start = CeilDiv(viewport_height, props.row_height)
    /\ Len(dom.items) # Range.end - Range.start

\* C19: no window exists in the initial state, where the viewport height is
\* 0 and nothing is rendered; while none exists the viewport height stays 0
\* and no item is on screen; only a handled CalculateWindowContent stores the
\* first one; and a stored window is never followed by no window.
C19_WindowAbsentUntilFirstComputation ==
    /\ content_window = NoWindow /\ viewport_height = 0 /\ dom = NoDom
    /\ [][/\ content_window' = NoWindow =>
               /\ viewport_height' = 0
               /\ dom' = NoDom \/ dom'.items = <<>>
          /\ content_window = NoWindow /\ content_window' # NoWindow =>
               Handling /\ HeadHas("CalculateWindowContent")
          /\ content_window # NoWindow => content_window' # NoWindow]_vars

\* a window that replaced an earlier one: an empty window stored after a
\* window with rows had been rendered
C19_Witness ==
    /\ panic = NoPanic
    /\ content_window # NoWindow
    /\ Range.start = Range.end
    /\ dom # NoDom
    /\ dom.items # <<>>

\* C20 (as claimed): every props update that differs from the current props
\* is eventually followed by a render that shows the new props, also when
\* change itself asks for no render because the class is unchanged.  So the
\* program never stops (a panic ends it: every action needs panic = NoPanic)
\* with a tree on screen whose spacer is not the one of the current props;
\* stated for positive row heights and an unchanged class.
C20_PropsEventuallyShown ==
    (/\ panic # NoPanic
     /\ props.row_height > 0
     /\ dom # NoDom
     /\ dom.class = props.class) =>
        dom.content_height = Len(props.items) * props.row_height

====
